---- MODULE Spec2Model ----
(***************************************************************************)
(* A model of the DCGAN training code of celeba-gan-pytorch:               *)
(*   utils.AvgMeter          the running-average accumulator               *)
(*   dcgan.DCGAN             the GAN container (train_D, train_G, clip,    *)
(*                           generate_img, interpolate)                    *)
(*   train.CelebA.train      the epoch / mini-batch training driver        *)
(*                                                                         *)
(* Six specifications share the variables:                                  *)
(*   Spec        CelebA.train run on a freshly compiled driver             *)
(*   SpecGan     train_D / train_G called directly, in any interleaving    *)
(*   SpecMeter   an AvgMeter under arbitrary reset / update calls          *)
(*   SpecInterp  DCGAN.interpolate on two latent vectors                   *)
(*   SpecCtor    CelebA.__init__                                           *)
(*   SpecLerp    the interpolation script lerp.py                          *)
(*                                                                         *)
(* Numbers the program treats as reals (averages, parameters, latent       *)
(* coordinates) are exact rationals <<num, den>> in lowest terms, den > 0. *)
(* What the framework draws at random or measures (the latent batch of a   *)
(* training call, the data of a batch, wall-clock time) is symbolic: the   *)
(* n-th training call of a container returns the loss LossOf(n) and moves  *)
(* the stepped parameters by StepDelta(n), so that different calls are     *)
(* told apart by their values.                                             *)
(***************************************************************************)
EXTENDS Integers, Sequences, FiniteSets, TLC

VARIABLES
  gan,      \* the DCGAN container (dcgan.py), with the record of its last call
  drv,      \* CelebA driver: configuration, position in train(), its locals
  fs,       \* files written: checkpoints and the statistics pickle
  log,      \* history of what train() did, in order
  mt,       \* a stand-alone AvgMeter with the history of its calls
  ip,       \* a call of DCGAN.interpolate: arguments, loop position, frames
  ct,       \* a call of CelebA.__init__: arguments, directories, outcome
  lp        \* a run of the interpolation script lerp.py

vars == <<gan, drv, fs, log, mt, ip, ct, lp>>

----------------------------------------------------------------------------
(* Bounds of the model *)

MaxEpochs == 2        \* nb_epochs ranges over 0..MaxEpochs
MaxBatches == 5       \* batches the data loader yields per epoch: 0..MaxBatches
MaxInterval == 2      \* batch_report_interval, save_stats_interval: 1..MaxInterval
BatchSize == 2        \* the configured batch size
MaxCalls == 5         \* direct train_D / train_G calls in SpecGan
MaxUpdates == 3       \* AvgMeter.update calls since the last reset in SpecMeter
MaxN == 2             \* weights n of AvgMeter.update: 0..MaxN
MaxZ == 1             \* latent coordinates range over -MaxZ..MaxZ
LatentDim == 2        \* the length of a latent vector
BatchMillis == 5      \* the measured duration of a batch, in ms
MaxFrames == 3        \* lerp.py is run with nb_frames in 0..MaxFrames
MaxSeed == 2          \* the seeds of lerp.py range over 0..MaxSeed

(* Program constants *)

GenEvery == 3         \* train.py:135   batch_idx % 3 == 0
InterpFrames == 11    \* dcgan.py:188   range(0,11)
InterpDiv == 10       \* dcgan.py:189   alpha = i/10

----------------------------------------------------------------------------
(* Exact rationals *)

Abs(a) == IF a < 0 THEN -a ELSE a

RECURSIVE GCD(_, _)
GCD(a, b) == IF b = 0 THEN a ELSE GCD(b, a % b)

\* n/d in lowest terms with a positive denominator (d # 0)
Rat(n, d) ==
  LET g == GCD(Abs(n), Abs(d))
      s == IF d < 0 THEN -1 ELSE 1
  IN  <<(s * n) \div g, (s * d) \div g>>

RatInt(a) == <<a, 1>>
RatAdd(p, q) == Rat(p[1] * q[2] + q[1] * p[2], p[2] * q[2])
RatSub(p, q) == Rat(p[1] * q[2] - q[1] * p[2], p[2] * q[2])
RatMul(p, q) == Rat(p[1] * q[1], p[2] * q[2])

\* Sum of f[i] over a finite set of integers
RECURSIVE SumOver(_, _)
SumOver(S, f) ==
  IF S = {} THEN 0
  ELSE LET x == CHOOSE y \in S : TRUE IN f[x] + SumOver(S \ {x}, f)

----------------------------------------------------------------------------
(* utils.AvgMeter *)

\* AvgMeter.reset (and __init__, which only calls it)
AvgMeterReset == [val |-> 0, avg |-> RatInt(0), sum |-> 0, count |-> 0]

\* the division of AvgMeter.update raises ZeroDivisionError when the count is 0
AvgMeterUpdateRaises(m, n) == m.count + n = 0

\* a faulty variant: the count grows by one whatever the weight
AvgMeterUpdateCountOne(m, val, n) ==
  LET s == m.sum + val * n
      c == m.count + 1
  IN  [val |-> val, sum |-> s, count |-> c,
       avg |-> IF c = 0 THEN m.avg ELSE Rat(s, c)]

\* AvgMeter.update(val, n): the three assignments, then avg = sum / count;
\* when the division raises, avg keeps its old value
AvgMeterUpdate(m, val, n) ==
  LET s == m.sum + val * n
      c == m.count + n
  IN  [val |-> val, sum |-> s, count |-> c,
       avg |-> IF c = 0 THEN m.avg ELSE Rat(s, c)]

----------------------------------------------------------------------------
(* dcgan.DCGAN *)

\* The loss-variant strings a container is constructed with.  `literal` tells
\* whether the object passed is the very string object of the literal in
\* dcgan.py (an interned literal of the caller) or an equal string built at
\* run time (read from the command line, concatenated, decoded).
LossInputs ==
  { [name |-> n, literal |-> l] : n \in {"og", "wasserstein"}, l \in BOOLEAN }
    \cup { [name |-> "lsgan", literal |-> FALSE] }

\* `self.loss is "og"`: object identity with the literal, not equality
Is(loss, lit) == loss.name = lit /\ loss.literal

\* Variable(torch.ones(batch_size)) / Variable(torch.zeros(batch_size))
Ones(n) == [n |-> n, v |-> 1]
Zeros(n) == [n |-> n, v |-> 0]

\* the scalar loss the n-th training call of a container returns
LossOf(n) == n
\* the change the optimizer step of the n-th training call makes
StepDelta(n) == RatInt(n)

NoCall ==
  [op |-> "none", raised |-> "", loss |-> 0, real |-> 0, fake |-> 0,
   stepGrad |-> {}, postStep |-> RatInt(0),
   pre |-> [D |-> RatInt(0), G |-> RatInt(0), Dgrad |-> {}, Ggrad |-> {}]]

\* DCGAN.__init__: the networks with their initial parameters, the label
\* tensors sized by batch_size; no gradient has been computed yet
Construct(loss, batch_size) ==
  [loss |-> loss, batch_size |-> batch_size,
   y_real |-> Ones(batch_size), y_fake |-> Zeros(batch_size),
   D |-> RatInt(1), G |-> RatInt(1),
   Dgrad |-> {}, Ggrad |-> {},
   calls |-> 0, last |-> NoCall]

\* create_latent_var(batch_size): the size of the latent batch
CreateLatentVar(batch_size) == batch_size

Snapshot(g) == [D |-> g.D, G |-> g.G, Dgrad |-> g.Dgrad, Ggrad |-> g.Ggrad]

\* a faulty variant: zero_grad() leaves the gradient as it is
ZeroGradNoop(grad) == grad

\* A network's gradient is the set of the calls whose backward pass added to
\* it.  zero_grad() empties it; backward() of call `id` adds to it.
ZeroGrad(grad) == {}
Backward(grad, id) == grad \cup {id}

\* Discriminator.clip(c): `p = p.mul(c)` computes the product and binds it to
\* the loop variable; the parameter itself is left as it was
Clip(p, c) ==
  LET scaled == RatMul(p, c)
  IN  p

\* the default c of Discriminator.clip
ClipC == Rat(5, 100)

\* train_D(x, D_optimizer, batch_size), x a real batch of `x` images.
\* Both variants: D.zero_grad(); the real batch and a fake batch of
\* create_latent_var(self.batch_size) go through D; backward() adds this
\* call's gradient to D and, the fake batch not being detached, to G; the
\* optimizer steps D's parameters.  Wasserstein then calls D.clip().
TrainD(g, x) ==
  LET id == g.calls + 1
      known == Is(g.loss, "og") \/ Is(g.loss, "wasserstein")
      dgrad == Backward(ZeroGrad(g.Dgrad), id)
      ggrad == Backward(g.Ggrad, id)
      stepped == RatAdd(g.D, StepDelta(id))
      final == IF Is(g.loss, "og") THEN stepped ELSE Clip(stepped, ClipC)
  IN  IF known
      THEN [g EXCEPT !.calls = id, !.Dgrad = dgrad, !.Ggrad = ggrad,
                     !.D = final,
                     !.last = [op |-> "train_D", raised |-> "",
                               loss |-> LossOf(id), real |-> x,
                               fake |-> CreateLatentVar(g.batch_size),
                               stepGrad |-> dgrad, postStep |-> stepped,
                               pre |-> Snapshot(g)]]
      ELSE [g EXCEPT !.calls = id,
                     !.last = [NoCall EXCEPT !.op = "train_D",
                                 !.raised = "NotImplementedError",
                                 !.real = x, !.pre = Snapshot(g)]]

\* train_G(G_optimizer, batch_size).  Both variants: G.zero_grad(); a fake
\* batch of create_latent_var(self.batch_size) goes through G then D;
\* backward() adds this call's gradient to G and to D; the optimizer steps
\* G's parameters.
TrainG(g) ==
  LET id == g.calls + 1
      known == Is(g.loss, "og") \/ Is(g.loss, "wasserstein")
      ggrad == Backward(ZeroGrad(g.Ggrad), id)
      dgrad == Backward(g.Dgrad, id)
      stepped == RatAdd(g.G, StepDelta(id))
  IN  IF known
      THEN [g EXCEPT !.calls = id, !.Dgrad = dgrad, !.Ggrad = ggrad,
                     !.G = stepped,
                     !.last = [op |-> "train_G", raised |-> "",
                               loss |-> LossOf(id), real |-> 0,
                               fake |-> CreateLatentVar(g.batch_size),
                               stepGrad |-> ggrad, postStep |-> stepped,
                               pre |-> Snapshot(g)]]
      ELSE [g EXCEPT !.calls = id,
                     !.last = [NoCall EXCEPT !.op = "train_G",
                                 !.raised = "NotImplementedError",
                                 !.pre = Snapshot(g)]]

\* generate_img(z) for a given latent vector: the generator's output, which
\* is determined by the generator's parameters and z
GenerateImg(g, z) == [G |-> g.G, z |-> z]

\* a faulty variant: floor division, as under python2
AlphaFloorDiv(i) == RatInt(i \div InterpDiv)

\* alpha = i/10 (true division: the file runs under python3)
Alpha(i) == Rat(i, InterpDiv)

\* z = (1-alpha)*z0 + alpha*z1, coordinate by coordinate
Lerp(alpha, z0, z1) ==
  [k \in DOMAIN z0 |->
     RatAdd(RatMul(RatSub(RatInt(1), alpha), z0[k]), RatMul(alpha, z1[k]))]

----------------------------------------------------------------------------
(* train.CelebA.train *)

\* the batch sizes a data loader may deliver, and the loaders: the sequence
\* of the sizes of the batches one iteration over the loader yields
SizeChoices == {BatchSize - 1, BatchSize}
Loaders == UNION { [1..n -> SizeChoices] : n \in 0..MaxBatches }

\* a local that is not bound yet is <<>>, a bound one is <<value>>
Unbound == <<>>
Bound(v) == <<v>>

\* one entry of the history of a run
Event(op, epoch, idx, real, fake, g, d) ==
  [op |-> op, epoch |-> epoch, idx |-> idx, real |-> real, fake |-> fake,
   g |-> g, d |-> d]

\* CelebA after __init__ / compile(): the configuration, and the locals of
\* train() before the call
Driver(batch_size, report, save) ==
  [batch_size |-> batch_size, batch_report_interval |-> report,
   save_stats_interval |-> save,
   pc |-> "init", err |-> "", nb_epochs |-> 0, data_loader |-> <<>>,
   epoch |-> 0, it |-> 0, batch_idx |-> 0, x |-> 0,
   G_loss |-> Unbound, D_loss |-> Unbound,
   G_losses |-> AvgMeterReset, D_losses |-> AvgMeterReset,
   avg_time_per_batch |-> AvgMeterReset, times |-> AvgMeterReset,
   G_all_losses |-> <<>>, D_all_losses |-> <<>>, ret |-> <<>>]

\* a faulty variant: no size guard
ShapeMismatchNever(x, batch_size) == FALSE

\* x.shape[0] != self.batch_size
ShapeMismatch(x, batch_size) == x # batch_size

\* a faulty variant: the mismatching batch is passed over and the loop goes on
AfterMismatchContinue == "fetch"

\* `break`: the mismatch leaves the batch loop, for the end of the epoch
AfterMismatch == "save_model"

\* a faulty variant: every second batch
GenDueEverySecond(batch_idx) == batch_idx % 2 = 0

\* a faulty variant: every fourth batch
GenDueEveryFourth(batch_idx) == batch_idx % (GenEvery + 1) = 0

\* batch_idx % 3 == 0
GenDue(batch_idx) == batch_idx % GenEvery = 0

\* a faulty variant: the `and batch_idx` is missing
ReportDueAtZero(batch_idx, interval) == batch_idx % interval = 0

\* batch_idx % self.batch_report_interval == 0 and batch_idx
ReportDue(batch_idx, interval) == batch_idx % interval = 0 /\ batch_idx # 0

\* batch_idx % self.save_stats_interval == 0 and batch_idx
SaveDue(batch_idx, interval) == batch_idx % interval = 0 /\ batch_idx # 0

\* train(nb_epochs, data_loader) is called: the tracked quantities are set up
TrainCall ==
  /\ drv.pc = "init"
  /\ \E n \in 0..MaxEpochs, dl \in Loaders :
       drv' = [drv EXCEPT !.pc = "epoch", !.nb_epochs = n, !.data_loader = dl,
                          !.G_all_losses = <<>>, !.D_all_losses = <<>>,
                          !.times = AvgMeterReset, !.epoch = 0]
  /\ UNCHANGED <<gan, fs, log, mt, ip, ct, lp>>

\* for epoch in range(nb_epochs): fresh meters, a new iteration of the loader;
\* after the last epoch, on to the return
EpochTop ==
  /\ drv.pc = "epoch"
  /\ drv' = IF drv.epoch < drv.nb_epochs
            THEN [drv EXCEPT !.pc = "fetch", !.it = 0,
                             !.G_losses = AvgMeterReset,
                             !.D_losses = AvgMeterReset,
                             !.avg_time_per_batch = AvgMeterReset]
            ELSE [drv EXCEPT !.pc = "return"]
  /\ UNCHANGED <<gan, fs, log, mt, ip, ct, lp>>

\* for batch_idx, (x, _) in enumerate(data_loader): the next batch, or the
\* end of the loop; a batch of another size than batch_size breaks the loop
Fetch ==
  /\ drv.pc = "fetch"
  /\ IF drv.it >= Len(drv.data_loader)
     THEN /\ drv' = [drv EXCEPT !.pc = "save_model"]
          /\ log' = log
     ELSE LET x == drv.data_loader[drv.it + 1]
              bad == ShapeMismatch(x, drv.batch_size)
          IN  /\ drv' = [drv EXCEPT !.batch_idx = drv.it, !.it = drv.it + 1,
                                    !.x = x,
                                    !.pc = IF bad THEN AfterMismatch
                                           ELSE "train_D"]
              /\ log' = IF bad
                        THEN Append(log, Event("mismatch", drv.epoch, drv.it,
                                               x, 0, RatInt(0), RatInt(0)))
                        ELSE log
  /\ UNCHANGED <<gan, fs, mt, ip, ct, lp>>

\* D_loss = self.gan.train_D(x, self.D_optimizer, self.batch_size)
StepTrainD ==
  /\ drv.pc = "train_D"
  /\ LET g == TrainD(gan, drv.x)
     IN  /\ gan' = g
         /\ IF g.last.raised # ""
            THEN /\ drv' = [drv EXCEPT !.pc = "error", !.err = g.last.raised]
                 /\ log' = log
            ELSE /\ drv' = [drv EXCEPT !.D_loss = Bound(g.last.loss),
                                       !.pc = IF GenDue(drv.batch_idx)
                                              THEN "train_G" ELSE "update"]
                 /\ log' = Append(log, Event("train_D", drv.epoch,
                                   drv.batch_idx, g.last.real, g.last.fake,
                                   RatInt(0), RatInt(g.last.loss)))
  /\ UNCHANGED <<fs, mt, ip, ct, lp>>

\* G_loss = self.gan.train_G(self.G_optimizer, self.batch_size)
StepTrainG ==
  /\ drv.pc = "train_G"
  /\ LET g == TrainG(gan)
     IN  /\ gan' = g
         /\ IF g.last.raised # ""
            THEN /\ drv' = [drv EXCEPT !.pc = "error", !.err = g.last.raised]
                 /\ log' = log
            ELSE /\ drv' = [drv EXCEPT !.G_loss = Bound(g.last.loss),
                                       !.pc = "update"]
                 /\ log' = Append(log, Event("train_G", drv.epoch,
                                   drv.batch_idx, 0, g.last.fake,
                                   RatInt(g.last.loss), RatInt(0)))
  /\ UNCHANGED <<fs, mt, ip, ct, lp>>

\* D_losses.update(D_loss, batch_size); G_losses.update(G_loss, batch_size);
\* avg_time_per_batch.update(batch_time).  Reading G_loss before any train_G
\* has bound it raises UnboundLocalError, after D_losses was updated.
StepUpdate ==
  /\ drv.pc = "update"
  /\ IF drv.G_loss = Unbound
     THEN /\ drv' = [drv EXCEPT !.pc = "error", !.err = "UnboundLocalError",
                       !.D_losses = AvgMeterUpdate(drv.D_losses,
                                       drv.D_loss[1], drv.batch_size)]
          /\ log' = log
     ELSE /\ drv' = [drv EXCEPT !.pc = "report",
                       !.D_losses = AvgMeterUpdate(drv.D_losses,
                                       drv.D_loss[1], drv.batch_size),
                       !.G_losses = AvgMeterUpdate(drv.G_losses,
                                       drv.G_loss[1], drv.batch_size),
                       !.avg_time_per_batch =
                          AvgMeterUpdate(drv.avg_time_per_batch,
                                         BatchMillis, 1)]
          /\ log' = Append(log, Event("update", drv.epoch, drv.batch_idx,
                             0, 0, RatInt(drv.G_loss[1]),
                             RatInt(drv.D_loss[1])))
  /\ UNCHANGED <<gan, fs, mt, ip, ct, lp>>

\* Report model statistics: the running averages are appended to the
\* histories, then the three meters are reset
StepReport ==
  /\ drv.pc = "report"
  /\ IF ReportDue(drv.batch_idx, drv.batch_report_interval)
     THEN /\ drv' = [drv EXCEPT !.pc = "save_stats",
                       !.G_all_losses = Append(drv.G_all_losses,
                                               drv.G_losses.avg),
                       !.D_all_losses = Append(drv.D_all_losses,
                                               drv.D_losses.avg),
                       !.G_losses = AvgMeterReset,
                       !.D_losses = AvgMeterReset,
                       !.avg_time_per_batch = AvgMeterReset]
          /\ log' = Append(log, Event("report", drv.epoch, drv.batch_idx,
                             0, 0, drv.G_losses.avg, drv.D_losses.avg))
     ELSE /\ drv' = [drv EXCEPT !.pc = "save_stats"]
          /\ log' = log
  /\ UNCHANGED <<gan, fs, mt, ip, ct, lp>>

\* Save stats: save_stats(dict(G_loss=G_all_losses, D_loss=D_all_losses))
\* pickles the histories as they are now into the statistics file
StepSaveStats ==
  /\ drv.pc = "save_stats"
  /\ drv' = [drv EXCEPT !.pc = "fetch"]
  /\ IF SaveDue(drv.batch_idx, drv.save_stats_interval)
     THEN /\ fs' = [fs EXCEPT !.stats = Bound([G_loss |-> drv.G_all_losses,
                                                D_loss |-> drv.D_all_losses])]
          /\ log' = Append(log, Event("save_stats", drv.epoch, drv.batch_idx,
                             0, 0, RatInt(0), RatInt(0)))
     ELSE /\ fs' = fs
          /\ log' = log
  /\ UNCHANGED <<gan, mt, ip, ct, lp>>

\* self.gan.save_model(epoch): the generator's parameters are written to the
\* checkpoint file of this epoch index
SaveModel(files, g, epoch) ==
  [files EXCEPT !.ckpts = Append(files.ckpts, [epoch |-> epoch, G |-> g.G])]

\* the end of an epoch: the checkpoint, then the next epoch
StepSaveModel ==
  /\ drv.pc = "save_model"
  /\ fs' = SaveModel(fs, gan, drv.epoch)
  /\ log' = Append(log, Event("save_model", drv.epoch, 0, 0, 0,
                              RatInt(0), RatInt(0)))
  /\ drv' = [drv EXCEPT !.pc = "epoch", !.epoch = drv.epoch + 1]
  /\ UNCHANGED <<gan, mt, ip, ct, lp>>

\* return G_loss, D_loss: a local no training call has bound raises
\* UnboundLocalError
StepReturn ==
  /\ drv.pc = "return"
  /\ drv' = IF drv.G_loss = Unbound \/ drv.D_loss = Unbound
            THEN [drv EXCEPT !.pc = "error", !.err = "UnboundLocalError"]
            ELSE [drv EXCEPT !.pc = "done",
                             !.ret = <<drv.G_loss[1], drv.D_loss[1]>>]
  /\ UNCHANGED <<gan, fs, log, mt, ip, ct, lp>>

NoFiles == [ckpts |-> <<>>, stats |-> Unbound]
IdleCtor == [pc |-> "idle", optim |-> [name |-> "adam", literal |-> TRUE],
             gan_type |-> [name |-> "og", literal |-> TRUE],
             before |-> {}, dirs |-> {}, raised |-> ""]
IdleLerp == [pc |-> "idle", space |-> "latent", nb_frames |-> 0,
             video |-> FALSE, s0 |-> 0, s1 |-> 0, z0 |-> <<>>, z1 |-> <<>>,
             imgs |-> <<>>, i |-> 0, writes |-> <<>>, files |-> <<>>]
IdleMeter == [m |-> AvgMeterReset, hist |-> <<>>, wiped |-> FALSE, err |-> ""]
IdleInterp == [z0 |-> <<>>, z1 |-> <<>>, in0 |-> <<>>, in1 |-> <<>>,
               i |-> 0, imgs |-> <<>>, pc |-> "idle"]

\* a driver constructed with a loss variant and report / save intervals:
\* the state in which train() can be called
Init ==
  /\ \E loss \in LossInputs, r \in 1..MaxInterval, s \in 1..MaxInterval :
       /\ drv = Driver(BatchSize, r, s)
       /\ gan = Construct(loss, BatchSize)
  /\ fs = NoFiles
  /\ log = <<>>
  /\ mt = IdleMeter
  /\ ct = IdleCtor
  /\ lp = IdleLerp
  /\ ip = IdleInterp

Next ==
  \/ TrainCall
  \/ EpochTop
  \/ Fetch
  \/ StepTrainD
  \/ StepTrainG
  \/ StepUpdate
  \/ StepReport
  \/ StepSaveStats
  \/ StepSaveModel
  \/ StepReturn

Spec == Init /\ [][Next]_vars

----------------------------------------------------------------------------
(* SpecGan: the training steps of a container, called directly *)

InitGan ==
  /\ \E loss \in LossInputs : gan = Construct(loss, BatchSize)
  /\ drv = Driver(BatchSize, 1, 1)
  /\ fs = NoFiles
  /\ log = <<>>
  /\ mt = IdleMeter
  /\ ct = IdleCtor
  /\ lp = IdleLerp
  /\ ip = IdleInterp

\* train_D on a real batch of the container's batch size
CallTrainD ==
  /\ gan.calls < MaxCalls
  /\ gan' = TrainD(gan, gan.batch_size)
  /\ UNCHANGED <<drv, fs, log, mt, ip, ct, lp>>

CallTrainG ==
  /\ gan.calls < MaxCalls
  /\ gan' = TrainG(gan)
  /\ UNCHANGED <<drv, fs, log, mt, ip, ct, lp>>

NextGan == CallTrainD \/ CallTrainG

SpecGan == InitGan /\ [][NextGan]_vars

----------------------------------------------------------------------------
(* SpecMeter: an AvgMeter under reset and update calls *)

\* the values and weights update is called with
MeterVals == {-1, 3, 5}
MeterWeights == 0..MaxN

InitMeter ==
  /\ mt = IdleMeter
  /\ ct = IdleCtor
  /\ lp = IdleLerp
  /\ gan = Construct([name |-> "og", literal |-> TRUE], BatchSize)
  /\ drv = Driver(BatchSize, 1, 1)
  /\ fs = NoFiles
  /\ log = <<>>
  /\ ip = IdleInterp

\* m.reset(); `wiped` remembers that a reset discarded accumulated updates
MeterReset ==
  /\ mt' = [m |-> AvgMeterReset, hist |-> <<>>,
            wiped |-> mt.wiped \/ mt.hist # <<>>, err |-> ""]
  /\ UNCHANGED <<gan, drv, fs, log, ip, ct, lp>>

\* m.update(v, n)
MeterUpdate ==
  /\ Len(mt.hist) < MaxUpdates
  /\ \E v \in MeterVals, n \in MeterWeights :
       mt' = [mt EXCEPT !.m = AvgMeterUpdate(mt.m, v, n),
                        !.hist = Append(mt.hist, <<v, n>>),
                        !.err = IF AvgMeterUpdateRaises(mt.m, n)
                                THEN "ZeroDivisionError" ELSE ""]
  /\ UNCHANGED <<gan, drv, fs, log, ip, ct, lp>>

NextMeter == MeterReset \/ MeterUpdate

SpecMeter == InitMeter /\ [][NextMeter]_vars

----------------------------------------------------------------------------
(* SpecInterp: DCGAN.interpolate(z0, z1) *)

Latents == [1..LatentDim -> { RatInt(k) : k \in -MaxZ..MaxZ }]

InitInterp ==
  /\ \E a \in Latents, b \in Latents :
       ip = [IdleInterp EXCEPT !.z0 = a, !.z1 = b, !.in0 = a, !.in1 = b]
  /\ gan = Construct([name |-> "og", literal |-> TRUE], BatchSize)
  /\ drv = Driver(BatchSize, 1, 1)
  /\ fs = NoFiles
  /\ log = <<>>
  /\ mt = IdleMeter
  /\ ct = IdleCtor
  /\ lp = IdleLerp

\* imgs = []
InterpCall ==
  /\ ip.pc = "idle"
  /\ ip' = [ip EXCEPT !.pc = "loop", !.i = 0, !.imgs = <<>>]
  /\ UNCHANGED <<gan, drv, fs, log, mt, ct, lp>>

\* one turn of `for i in range(0,11)`: the blend, then the generated frame
InterpStep ==
  /\ ip.pc = "loop"
  /\ ip.i < InterpFrames
  /\ LET z == Lerp(Alpha(ip.i), ip.z0, ip.z1)
     IN  ip' = [ip EXCEPT !.i = ip.i + 1,
                          !.imgs = Append(ip.imgs, GenerateImg(gan, z))]
  /\ UNCHANGED <<gan, drv, fs, log, mt, ct, lp>>

\* return imgs
InterpReturn ==
  /\ ip.pc = "loop"
  /\ ip.i >= InterpFrames
  /\ ip' = [ip EXCEPT !.pc = "done"]
  /\ UNCHANGED <<gan, drv, fs, log, mt, ct, lp>>

NextInterp == InterpCall \/ InterpStep \/ InterpReturn

SpecInterp == InitInterp /\ [][NextInterp]_vars

----------------------------------------------------------------------------
(* The history of a run, read back *)

\* the places of the history where `op` happened in epoch e
At(op, e) == { p \in DOMAIN log : log[p].op = op /\ log[p].epoch = e }
\* the batch indices at which `op` happened in epoch e
IdxOf(op, e) == { log[p].idx : p \in At(op, e) }
Epochs == 0..(MaxEpochs + 1)
SameBatch(p, q) == log[p].epoch = log[q].epoch /\ log[p].idx = log[q].idx
\* ceil(k / 3)
CeilThird(k) == (k + 2) \div 3

----------------------------------------------------------------------------
(* C1 *)

\* C1: in every epoch train_D runs on every processed batch and train_G
\* exactly on the processed batches whose index is a multiple of 3, right
\* after the train_D of the same batch; after k processed batches of an epoch
\* there have been k discriminator and ceil(k/3) generator updates in it.
C1_DutyCycle ==
  /\ \A p \in DOMAIN log :
       /\ log[p].op = "train_G" =>
            /\ log[p].idx % 3 = 0
            /\ p > 1 /\ log[p - 1].op = "train_D" /\ SameBatch(p - 1, p)
       /\ (log[p].op = "train_D" /\ log[p].idx % 3 = 0) =>
            \/ p < Len(log) /\ log[p + 1].op = "train_G" /\ SameBatch(p, p + 1)
            \/ p = Len(log) /\ drv.pc = "train_G"
       /\ log[p].op = "update" =>
            \E q \in At("train_D", log[p].epoch) : q < p /\ SameBatch(p, q)
  /\ drv.pc = "fetch" =>
       /\ IdxOf("train_D", drv.epoch) = 0..(drv.it - 1)
       /\ Cardinality(At("train_D", drv.epoch)) = drv.it
  /\ \A e \in Epochs :
       (e < drv.epoch \/ (e = drv.epoch /\ drv.pc \in {"fetch", "save_model"}))
       => LET k == Cardinality(At("update", e))
          IN  /\ Cardinality(At("train_D", e)) = k
              /\ Cardinality(At("train_G", e)) = CeilThird(k)
              /\ IdxOf("train_G", e) = { i \in 0..(k - 1) : i % 3 = 0 }

\* the second epoch has processed four batches: four discriminator and two
\* generator updates
C1_Witness ==
  /\ drv.pc = "fetch" /\ drv.epoch = 1 /\ drv.it = 4
  /\ Cardinality(At("train_D", 1)) = 4
  /\ Cardinality(At("train_G", 1)) = 2

----------------------------------------------------------------------------
(* C2 *)

\* the batches of the loader, by index, that have the configured size
FullSized == { j \in 0..(Len(drv.data_loader) - 1) :
                 drv.data_loader[j + 1] = drv.batch_size }
\* the batches before the first one of another size
BeforeMismatch ==
  { j \in 0..(Len(drv.data_loader) - 1) :
      \A i \in 0..j : drv.data_loader[i + 1] = drv.batch_size }

\* C2 as stated: a batch of another size is passed over without error and
\* without a training call, and every batch of the configured size, also a
\* later one of the same epoch, is still processed.
C2_SkipAndGoOn ==
  drv.pc = "save_model" =>
    /\ IdxOf("train_D", drv.epoch) = FullSized
    /\ IdxOf("update", drv.epoch) = FullSized

\* C2, amended: a batch of another size gets no training call and raises no
\* error, and it ends the batch loop of its epoch: the batches processed in
\* an epoch are exactly those before the first mismatching one, and the next
\* thing the run does after the mismatch is the checkpoint of the epoch.
C2_MismatchEndsEpoch ==
  /\ drv.pc = "save_model" =>
       /\ IdxOf("train_D", drv.epoch) = BeforeMismatch
       /\ IdxOf("update", drv.epoch) = BeforeMismatch
  /\ \A p \in DOMAIN log :
       log[p].op = "mismatch" =>
         /\ log[p].real # drv.batch_size
         /\ log[p].idx \notin IdxOf("train_D", log[p].epoch)
         /\ log[p].idx \notin IdxOf("train_G", log[p].epoch)
         /\ \/ p = Len(log) /\ drv.pc = "save_model"
            \/ p < Len(log) /\ log[p + 1].op = "save_model"
                 /\ log[p + 1].epoch = log[p].epoch

\* an epoch has ended on a mismatching batch that a batch of the configured
\* size follows in the loader, after at least one processed batch
C2_Witness ==
  /\ drv.pc = "save_model"
  /\ Len(log) > 0 /\ log[Len(log)].op = "mismatch"
  /\ log[Len(log)].idx >= 1
  /\ log[Len(log)].idx + 2 <= Len(drv.data_loader)
  /\ drv.data_loader[log[Len(log)].idx + 2] = drv.batch_size

----------------------------------------------------------------------------
(* C3 *)

\* the epoch indices of the checkpoints written, in the order of writing
CkptEpochs == [k \in DOMAIN fs.ckpts |-> fs.ckpts[k].epoch]

\* C3 as stated: a run of N epochs writes the checkpoint once per epoch,
\* indices 0..N-1 in order, after all the batches of the epoch and before
\* those of the next one, and it completes without error, leaving N
\* checkpoints.  Stated for the runs most favourable to it: at least one
\* epoch, and a container whose training steps recognise its loss variant.
C3_CheckpointPerEpoch ==
  (drv.nb_epochs >= 1 /\ (Is(gan.loss, "og") \/ Is(gan.loss, "wasserstein"))) =>
    /\ drv.pc # "error"
    /\ CkptEpochs = [k \in 1..drv.epoch |-> k - 1]
    /\ drv.pc = "done" => Len(fs.ckpts) = drv.nb_epochs
    /\ \A p \in DOMAIN log, q \in DOMAIN log :
         (log[p].op = "save_model" /\ log[q].op # "save_model") =>
           /\ log[q].epoch <= log[p].epoch => q < p
           /\ log[q].epoch > log[p].epoch => q > p

----------------------------------------------------------------------------
(* C4 *)

\* C4 as stated: with an unrecognized variant name construction succeeds and
\* a training call raises NotImplementedError with no gradient zeroed, no
\* parameter changed and no optimizer step taken; with the name "og" or
\* "wasserstein" no training call raises NotImplementedError.
C4_NotImplementedOnlyForUnknown ==
  /\ (gan.loss.name = "lsgan" /\ gan.calls >= 1) =>
       /\ gan.last.raised = "NotImplementedError"
       /\ Snapshot(gan) = gan.last.pre
       /\ Snapshot(gan) = Snapshot(Construct(gan.loss, gan.batch_size))
  /\ gan.loss.name \in {"og", "wasserstein"} =>
       gan.last.raised # "NotImplementedError"

----------------------------------------------------------------------------
(* C5 *)

\* C5 as stated: a Wasserstein train_D ends with every discriminator
\* parameter at 0.05 times what the optimizer step of the call left, an "og"
\* train_D with the parameters as the optimizer step left them.
C5_ClipScalesByC ==
  (gan.last.op = "train_D" /\ gan.last.raised = "") =>
    /\ gan.loss.name = "wasserstein" =>
         gan.D = Rat(5 * gan.last.postStep[1], 100 * gan.last.postStep[2])
    /\ gan.loss.name = "og" => gan.D = gan.last.postStep

----------------------------------------------------------------------------
(* C6 *)

\* the blend of two latent vectors with integer coordinates at fraction
\* i/10, in tenths
BlendTenths(i, a, b) ==
  [k \in DOMAIN a |-> Rat((10 - i) * a[k][1] + i * b[k][1], 10)]

\* C6: interpolate(z0, z1) returns exactly 11 frames, frame i the generator's
\* output for (1 - i/10)*z0 + (i/10)*z1, so frame 0 is generate_img(z0) and
\* frame 10 is generate_img(z1); z0 and z1 are not modified.
C6_Interpolate ==
  /\ \A k \in DOMAIN ip.imgs :
       ip.imgs[k] = [G |-> gan.G, z |-> BlendTenths(k - 1, ip.in0, ip.in1)]
  /\ ip.pc = "done" =>
       /\ Len(ip.imgs) = 11
       /\ ip.imgs[1] = [G |-> gan.G, z |-> ip.in0]
       /\ ip.imgs[11] = [G |-> gan.G, z |-> ip.in1]
  /\ ip.z0 = ip.in0 /\ ip.z1 = ip.in1

\* a finished interpolation between two vectors that differ in every
\* coordinate
C6_Witness ==
  /\ ip.pc = "done" /\ Len(ip.imgs) = 11
  /\ \A k \in DOMAIN ip.in0 : ip.in0[k] # ip.in1[k]
  /\ ip.imgs[6].z # ip.in0 /\ ip.imgs[6].z # ip.in1

----------------------------------------------------------------------------
(* C7 *)

HistWeights == [k \in DOMAIN mt.hist |-> mt.hist[k][2]]
HistProducts == [k \in DOMAIN mt.hist |-> mt.hist[k][1] * mt.hist[k][2]]

\* C7: after reset or construction val, sum, count and avg are 0; after
\* updates (v_i, n_i) with positive n_i since the last reset, count is the
\* sum of the n_i, sum the sum of the v_i*n_i, val the last v_i and avg is
\* sum/count; nothing from before the reset shows.
C7_AvgMeter ==
  /\ mt.hist = <<>> =>
       /\ mt.m.val = 0 /\ mt.m.sum = 0 /\ mt.m.count = 0
       /\ mt.m.avg = <<0, 1>>
  /\ (mt.hist # <<>> /\ \A k \in DOMAIN mt.hist : mt.hist[k][2] > 0) =>
       /\ mt.err = ""
       /\ mt.m.count = SumOver(DOMAIN mt.hist, HistWeights)
       /\ mt.m.sum = SumOver(DOMAIN mt.hist, HistProducts)
       /\ mt.m.val = mt.hist[Len(mt.hist)][1]
       /\ mt.m.avg[2] > 0
       /\ mt.m.avg[1] * mt.m.count = mt.m.sum * mt.m.avg[2]
       /\ GCD(Abs(mt.m.avg[1]), mt.m.avg[2]) = 1

\* update(3, n=2) then update(5, n=1), after a reset that discarded earlier
\* updates: the average is 11/3
C7_Witness ==
  /\ mt.wiped
  /\ mt.hist = << <<3, 2>>, <<5, 1>> >>
  /\ mt.m.avg = <<11, 3>>

----------------------------------------------------------------------------
(* C8 *)

\* the reports of the run, in order
Reports == SelectSeq(log, LAMBDA e : e.op = "report")
\* the reports among the first p entries of the history
ReportsUpTo(p) == SelectSeq(SubSeq(log, 1, p), LAMBDA e : e.op = "report")
Gs(evs) == [k \in DOMAIN evs |-> evs[k].g]
Ds(evs) == [k \in DOMAIN evs |-> evs[k].d]
\* the meter updates a report at place p averages over: those of its epoch
\* since the previous report of that epoch
Window(p) ==
  { q \in At("update", log[p].epoch) :
      /\ q < p
      /\ \A r \in At("report", log[p].epoch) : r < p => r < q }
GLossAt == [q \in DOMAIN log |-> log[q].g[1]]
DLossAt == [q \in DOMAIN log |-> log[q].d[1]]
Due(idx, interval) == idx > 0 /\ idx % interval = 0
LastPlace(op) == CHOOSE p \in DOMAIN log :
                   log[p].op = op /\ \A q \in DOMAIN log : log[q].op = op => q <= p
ZeroMeter == [val |-> 0, avg |-> <<0, 1>>, sum |-> 0, count |-> 0]

\* C8: a report is made on exactly the processed batches with index i > 0 and
\* i % batch_report_interval = 0; it appends the running averages of the
\* generator and discriminator losses (the means of the losses recorded since
\* the previous report of the epoch) to the histories and then resets the
\* three meters; the histories are never reset, so the statistics saved (on
\* exactly the batches with i > 0 and i % save_stats_interval = 0) hold one
\* entry per report of the whole run so far, in order.
C8_ReportAndSave ==
  /\ \A p \in DOMAIN log :
       /\ log[p].op = "report" =>
            /\ Due(log[p].idx, drv.batch_report_interval)
            /\ p > 1 /\ log[p - 1].op = "update" /\ SameBatch(p - 1, p)
            /\ Window(p) # {}
            /\ log[p].g[1] * Cardinality(Window(p))
                 = SumOver(Window(p), GLossAt) * log[p].g[2]
            /\ log[p].d[1] * Cardinality(Window(p))
                 = SumOver(Window(p), DLossAt) * log[p].d[2]
       /\ (log[p].op = "update" /\ Due(log[p].idx, drv.batch_report_interval)) =>
            \/ p = Len(log) /\ drv.pc = "report"
            \/ p < Len(log) /\ log[p + 1].op = "report"
       /\ log[p].op = "save_stats" =>
            /\ Due(log[p].idx, drv.save_stats_interval)
            /\ \E q \in At("update", log[p].epoch) : q < p /\ SameBatch(p, q)
       /\ (log[p].op = "update" /\ Due(log[p].idx, drv.save_stats_interval)) =>
            \/ drv.pc \in {"report", "save_stats"} /\ SameBatch(p, LastPlace("update"))
                 /\ p = LastPlace("update")
            \/ \E q \in At("save_stats", log[p].epoch) : q > p /\ SameBatch(p, q)
  /\ drv.G_all_losses = Gs(Reports)
  /\ drv.D_all_losses = Ds(Reports)
  /\ (log # <<>> /\ log[Len(log)].op = "report") =>
       /\ drv.G_losses = ZeroMeter
       /\ drv.D_losses = ZeroMeter
       /\ drv.avg_time_per_batch = ZeroMeter
  /\ fs.stats # Unbound =>
       /\ \E p \in DOMAIN log : log[p].op = "save_stats"
       /\ fs.stats[1].G_loss = Gs(ReportsUpTo(LastPlace("save_stats")))
       /\ fs.stats[1].D_loss = Ds(ReportsUpTo(LastPlace("save_stats")))
  /\ (log # <<>> /\ log[Len(log)].op = "save_stats") =>
       /\ fs.stats # Unbound
       /\ fs.stats[1].G_loss = drv.G_all_losses
       /\ fs.stats[1].D_loss = drv.D_all_losses

\* statistics were just saved in the second epoch, holding reports of both
\* epochs, the last of them an average over two batches
C8_Witness ==
  /\ log # <<>> /\ log[Len(log)].op = "save_stats" /\ log[Len(log)].epoch = 1
  /\ fs.stats # Unbound
  /\ Len(fs.stats[1].G_loss) >= 2
  /\ \E k \in DOMAIN Reports : Reports[k].epoch = 0
  /\ \E p \in At("report", 1) : Cardinality(Window(p)) = 2
  /\ drv.batch_report_interval # drv.save_stats_interval

----------------------------------------------------------------------------
(* C9 *)

\* C9 as stated: whatever the epoch count and the batch sizes delivered,
\* train ends by returning the loss of the most recent train_G call and the
\* loss of the most recent train_D call.  Stated for a container whose
\* training steps recognise its loss variant.
C9_ReturnsLastLosses ==
  (Is(gan.loss, "og") \/ Is(gan.loss, "wasserstein")) =>
    /\ drv.pc # "error"
    /\ drv.pc = "done" =>
         /\ \E p \in DOMAIN log : log[p].op = "train_G"
         /\ \E p \in DOMAIN log : log[p].op = "train_D"
         /\ drv.ret = <<log[LastPlace("train_G")].g[1],
                        log[LastPlace("train_D")].d[1]>>

----------------------------------------------------------------------------
(* C10 *)

\* C10: every train_D call of the driver gets a real batch of the size the
\* label tensors were created with, the fake batches sampled in train_D and
\* train_G have that size too, and the label tensors stay as constructed.
C10_BatchMatchesLabels ==
  /\ gan.y_real = [n |-> BatchSize, v |-> 1]
  /\ gan.y_fake = [n |-> BatchSize, v |-> 0]
  /\ drv.pc = "train_D" => drv.x = gan.y_real.n
  /\ gan.last.op = "train_D" => gan.last.real = gan.y_real.n
  /\ \A p \in DOMAIN log :
       /\ log[p].op = "train_D" =>
            /\ log[p].real = gan.y_real.n /\ log[p].real = gan.y_fake.n
            /\ log[p].fake = gan.y_real.n
       /\ log[p].op = "train_G" => log[p].fake = gan.y_real.n

\* the loader delivered a batch of another size in the first epoch, and
\* train_D and train_G have run in the second
C10_Witness ==
  /\ At("mismatch", 0) # {}
  /\ At("train_D", 1) # {} /\ At("train_G", 1) # {}
  /\ gan.last.op = "train_D" /\ drv.epoch = 1

----------------------------------------------------------------------------
(* SpecCtor: train.CelebA.__init__ *)

\* the attributes lines 37-49 of __init__ assign to self, from train_params
\* and ckpt_params
AssignedAttrs ==
  {"root_dir", "gen_dir", "batch_size", "train_len", "learning_rate",
   "momentum", "optim", "use_cuda",
   "batch_report_interval", "ckpts_path", "save_stats_interval"}

\* the three directories __init__ looks for, named by the attribute that
\* holds their path
DirAttrs == {"stats_path", "ckpts_path", "gen_dir"}

\* the optimizer names a driver is constructed with; like the loss variant,
\* compile() compares with `is`
OptimInputs ==
  { [name |-> "adam", literal |-> TRUE], [name |-> "adam", literal |-> FALSE],
    [name |-> "sgd", literal |-> FALSE] }

\* if not os.path.isdir(d): os.mkdir(d)
MkdirIfAbsent(dirs, d) == IF d \notin dirs THEN dirs \cup {d} ELSE dirs

\* compile(): the GAN container, then the optimizers, for 'adam' only
Compile(optim) == IF Is(optim, "adam") THEN "" ELSE "NotImplementedError"

\* CelebA.__init__(train_params, ckpt_params, gan_params) with the
\* directories `dirs` existing: the outcome (the exception raised, "" for
\* none) and the directories existing afterwards.  Reading an attribute of
\* self that was never assigned raises AttributeError.
CelebAInit(dirs, optim) ==
  IF "stats_path" \notin AssignedAttrs
  THEN [raised |-> "AttributeError", dirs |-> dirs]
  ELSE LET d1 == MkdirIfAbsent(dirs, "stats_path")
           d2 == MkdirIfAbsent(d1, "ckpts_path")
           d3 == MkdirIfAbsent(d2, "gen_dir")
       IN  [raised |-> Compile(optim), dirs |-> d3]

InitCtor ==
  /\ \E d \in SUBSET DirAttrs, o \in OptimInputs, l \in LossInputs :
       ct = [IdleCtor EXCEPT !.pc = "new", !.optim = o, !.gan_type = l,
                             !.before = d, !.dirs = d]
  /\ gan = Construct([name |-> "og", literal |-> TRUE], BatchSize)
  /\ drv = Driver(BatchSize, 1, 1)
  /\ fs = NoFiles
  /\ log = <<>>
  /\ mt = IdleMeter
  /\ ip = IdleInterp
  /\ lp = IdleLerp

\* CelebA(train_params, ckpt_params, gan_params)
CtorCall ==
  /\ ct.pc = "new"
  /\ LET r == CelebAInit(ct.dirs, ct.optim)
     IN  ct' = [ct EXCEPT !.pc = IF r.raised = "" THEN "done" ELSE "error",
                          !.raised = r.raised, !.dirs = r.dirs]
  /\ UNCHANGED <<gan, drv, fs, log, mt, ip, lp>>

NextCtor == CtorCall

SpecCtor == InitCtor /\ [][NextCtor]_vars

----------------------------------------------------------------------------
(* C11 *)

\* C11 as stated: constructing the driver with valid parameters succeeds
\* whether or not the three directories exist, afterwards all three exist,
\* and a directory that existed before is still there.
C11_ConstructionMakesDirs ==
  (ct.pc \in {"done", "error"} /\ ct.optim = [name |-> "adam", literal |-> TRUE]) =>
    /\ ct.pc = "done" /\ ct.raised = ""
    /\ ct.dirs = {"stats_path", "ckpts_path", "gen_dir"}
    /\ ct.before \subseteq ct.dirs

----------------------------------------------------------------------------
(* C12 *)

\* the positions of two consecutive generator updates of the run
ConsecutiveG(p, q) ==
  /\ p < q /\ log[p].op = "train_G" /\ log[q].op = "train_G"
  /\ \A r \in (p + 1)..(q - 1) : log[r].op # "train_G"
\* the discriminator updates strictly between two positions of the run
DBetween(p, q) ==
  Cardinality({ r \in (p + 1)..(q - 1) : log[r].op = "train_D" })
\* the discriminator updates a finished epoch of k processed batches leaves
\* after its last generator update, plus the one that precedes the generator
\* update of batch 0 of the next epoch that processes a batch
AcrossEpochs(k) == ((k - 1) % GenEvery) + 1

\* C12 as stated: over the whole run, epoch boundaries included, exactly
\* three discriminator updates lie between any two consecutive generator
\* updates.
C12_ThreeBetweenAnyTwo ==
  \A p, q \in DOMAIN log : ConsecutiveG(p, q) => DBetween(p, q) = 3

\* C12, amended: two consecutive generator updates of the same epoch have
\* exactly three discriminator updates between them; two consecutive
\* generator updates of different epochs have ((k - 1) % 3) + 1 between them,
\* k being the number of batches the earlier epoch processed, which is three
\* exactly when k is a multiple of 3; the later one is on batch 0.
C12_ThreeWithinEpoch ==
  \A p, q \in DOMAIN log :
    ConsecutiveG(p, q) =>
      IF log[p].epoch = log[q].epoch
      THEN /\ DBetween(p, q) = 3
           /\ log[q].idx = log[p].idx + 3
      ELSE LET k == Cardinality(At("train_D", log[p].epoch))
           IN  /\ log[p].epoch < log[q].epoch
               /\ log[q].idx = 0
               /\ DBetween(p, q) = AcrossEpochs(k)
               /\ (DBetween(p, q) = 3) <=> (k % 3 = 0)

\* an epoch of four processed batches: three discriminator updates between
\* its two generator updates, and one between its last generator update and
\* the first of the next epoch
C12_Witness ==
  \E p, q, r \in DOMAIN log :
    /\ ConsecutiveG(p, q) /\ ConsecutiveG(q, r)
    /\ log[p].epoch = 0 /\ log[q].epoch = 0 /\ log[r].epoch = 1
    /\ DBetween(p, q) = 3 /\ DBetween(q, r) = 1
    /\ Cardinality(At("train_D", 0)) = 4

----------------------------------------------------------------------------
(* SpecLerp: lerp.py *)

\* An image is kept as a pixel-wise linear combination of generator outputs:
\* a set of <<coefficient, generator output>> with distinct outputs and no
\* zero coefficient.

\* the image generate_img returns, as such a combination
Pixels(x) == { <<RatInt(1), x>> }

\* the generator outputs an image is made of
AtomsOf(img) == { t[2] : t \in img }
\* the coefficient of a generator output in an image
CoefOf(img, a) ==
  IF a \in AtomsOf(img) THEN (CHOOSE t \in img : t[2] = a)[1] ELSE RatInt(0)
\* the combination with the coefficients c[a], the zero ones dropped
Combination(atoms, c) ==
  { <<c[a], a>> : a \in { b \in atoms : c[b] # RatInt(0) } }

\* alpha * x, pixel by pixel
ImgScale(alpha, x) ==
  Combination(AtomsOf(x), [a \in AtomsOf(x) |-> RatMul(alpha, CoefOf(x, a))])
\* x + y, pixel by pixel
ImgAdd(x, y) ==
  LET atoms == AtomsOf(x) \cup AtomsOf(y)
  IN  Combination(atoms,
                  [a \in atoms |-> RatAdd(CoefOf(x, a), CoefOf(y, a))])

\* utils.unnormalize, first channel: img * std + mean
UnnormStd == Rat(2589, 10000)
UnnormMean == Rat(5066, 10000)
Unnormalize(img) == [scaled |-> ImgScale(UnnormStd, img), plus |-> UnnormMean]

\* alpha = i / nb_frames (true division; nb_frames # 0 inside the loop)
LerpAlpha(i, nb_frames) == Rat(i, nb_frames)

\* latent_lerp(gan, z0, z1, nb_frames): blend the latent vectors, then decode
LatentLerp(g, z0, z1, nb_frames) ==
  [j \in 1..nb_frames |->
     Pixels(GenerateImg(g, Lerp(LerpAlpha(j - 1, nb_frames), z0, z1)))]

\* screen_lerp(x0, x1, nb_frames): blend the two decoded images
ScreenLerp(x0, x1, nb_frames) ==
  [j \in 1..nb_frames |->
     LET alpha == LerpAlpha(j - 1, nb_frames)
     IN  ImgAdd(ImgScale(RatSub(RatInt(1), alpha), x0), ImgScale(alpha, x1))]

\* DCGAN(...) followed by gan.load_model(filename): the container with the
\* generator parameters of the checkpoint file
LoadModel(g, G) == [g EXCEPT !.G = G]

\* gan.create_latent_var(1, seed): the latent vector drawn under a seed; the
\* same seed gives the same vector
SeededLatent(seed) ==
  [k \in 1..LatentDim |->
     RatInt(((seed * k + seed) % (2 * MaxZ + 1)) - MaxZ)]

\* torchvision.utils.save_image(img, '{dir}/frame{idx}.png'): the file of
\* this index now holds img
SaveImage(files, idx, img) ==
  [k \in (DOMAIN files) \cup {idx} |-> IF k = idx THEN img ELSE files[k]]

\* a faulty variant: the mirror index is one too high
MirrorIndexOffByOne(nb_frames, i) == 2 * nb_frames - i

\* 2*args.nb_frames - i - 1
MirrorIndex(nb_frames, i) == 2 * nb_frames - i - 1

\* lerp.py is started with --latent s0 s1 or --screen s0 s1, --nb-frames and
\* possibly --video; the model is loaded and the output directory is empty
InitLerp ==
  /\ \E space \in {"latent", "screen"}, n \in 0..MaxFrames, v \in BOOLEAN,
        a \in 0..MaxSeed, b \in 0..MaxSeed :
       lp = [IdleLerp EXCEPT !.pc = "start", !.space = space,
                             !.nb_frames = n, !.video = v,
                             !.s0 = a, !.s1 = b]
  /\ gan = LoadModel(Construct([name |-> "og", literal |-> TRUE], BatchSize),
                     RatInt(2))
  /\ drv = Driver(BatchSize, 1, 1)
  /\ fs = NoFiles
  /\ log = <<>>
  /\ mt = IdleMeter
  /\ ip = IdleInterp
  /\ ct = IdleCtor

\* the two seeded latent vectors, then latent_lerp or screen_lerp
LerpCall ==
  /\ lp.pc = "start"
  /\ LET z0 == SeededLatent(lp.s0)
         z1 == SeededLatent(lp.s1)
         imgs == IF lp.space = "latent"
                 THEN LatentLerp(gan, z0, z1, lp.nb_frames)
                 ELSE ScreenLerp(Pixels(GenerateImg(gan, z0)),
                                 Pixels(GenerateImg(gan, z1)), lp.nb_frames)
     IN  lp' = [lp EXCEPT !.pc = "save", !.z0 = z0, !.z1 = z1,
                          !.imgs = imgs, !.i = 0]
  /\ UNCHANGED <<gan, drv, fs, log, mt, ip, ct>>

\* one turn of `for i, img in enumerate(imgs)`: frame i is saved, and with
\* --video the same image once more under the mirror index
LerpSave ==
  /\ lp.pc = "save"
  /\ lp.i < Len(lp.imgs)
  /\ LET img == Unnormalize(lp.imgs[lp.i + 1])
         out == MirrorIndex(lp.nb_frames, lp.i)
         f1 == SaveImage(lp.files, lp.i, img)
         w1 == Append(lp.writes, [idx |-> lp.i, img |-> img])
     IN  lp' = [lp EXCEPT
                  !.i = lp.i + 1,
                  !.files = IF lp.video THEN SaveImage(f1, out, img) ELSE f1,
                  !.writes = IF lp.video
                             THEN Append(w1, [idx |-> out, img |-> img])
                             ELSE w1]
  /\ UNCHANGED <<gan, drv, fs, log, mt, ip, ct>>

\* the loop is over
LerpDone ==
  /\ lp.pc = "save"
  /\ lp.i = Len(lp.imgs)
  /\ lp' = [lp EXCEPT !.pc = "done"]
  /\ UNCHANGED <<gan, drv, fs, log, mt, ip, ct>>

NextLerp ==
  \/ LerpCall
  \/ LerpSave
  \/ LerpDone

SpecLerp == InitLerp /\ [][NextLerp]_vars

----------------------------------------------------------------------------
(* C13 *)

\* the latent blend of frame i of N, computed on the integer coordinates
BlendNth(i, N, a, b) ==
  [k \in DOMAIN a |-> Rat((N - i) * a[k][1] + i * b[k][1], N)]
\* frame i of N as the claim describes it: the decoded latent blend, or the
\* pixel blend of the two decoded endpoints, with fraction i/N
ExpectedFrame(i) ==
  LET N == lp.nb_frames
      x0 == GenerateImg(gan, lp.z0)
      x1 == GenerateImg(gan, lp.z1)
  IN  IF lp.space = "latent"
      THEN { <<RatInt(1), GenerateImg(gan, BlendNth(i, N, lp.z0, lp.z1))>> }
      ELSE IF x0 = x1 \/ i = 0
           THEN { <<RatInt(1), x0>> }
           ELSE { <<Rat(N - i, N), x0>>, <<Rat(i, N), x1>> }
\* the file content of an image: every pixel times std plus mean
ExpectedFile(img) ==
  [scaled |-> { <<Rat(2589 * t[1][1], 10000 * t[1][2]), t[2]>> : t \in img },
   plus |-> Rat(5066, 10000)]

----------------------------------------------------------------------------
(* C14 *)

\* C14: whatever the order of the train_D and train_G calls, the optimizer
\* step of a train_G call uses a generator gradient that only the backward
\* pass of this call produced, and the step of a train_D call a discriminator
\* gradient that only the backward pass of this call produced: what earlier
\* calls left on the network is zeroed first.  train_D changes no generator
\* parameter and train_G no discriminator parameter.
C14_OwnGradients ==
  (gan.last.op \in {"train_D", "train_G"} /\ gan.last.raised = "") =>
    /\ gan.last.stepGrad = {gan.calls}
    /\ gan.last.op = "train_G" =>
         /\ gan.D = gan.last.pre.D
         /\ gan.G = gan.last.postStep
         /\ gan.Ggrad = {gan.calls}
         /\ gan.Dgrad = gan.last.pre.Dgrad \cup {gan.calls}
    /\ gan.last.op = "train_D" =>
         /\ gan.G = gan.last.pre.G
         /\ gan.Dgrad = {gan.calls}
         /\ gan.Ggrad = gan.last.pre.Ggrad \cup {gan.calls}

\* the fourth call is a train_G that found on the generator the gradients of
\* an earlier train_G and of the train_D after it, and stepped with its own
\* only; the discriminator now carries what this train_G deposited
C14_Witness ==
  /\ gan.last.op = "train_G" /\ gan.last.raised = "" /\ gan.calls = 4
  /\ gan.last.pre.Ggrad = {2, 3}
  /\ gan.last.stepGrad = {4}
  /\ gan.Dgrad = {3, 4}
  /\ gan.D = gan.last.pre.D /\ gan.G # gan.last.pre.G

====
